---- MODULE Spec2Model ----
(***************************************************************************)
(* A model of the sign-language player (src/main.py): the sign catalog,    *)
(* the sentence resolver, the playback controller and the listen loop.     *)
(*                                                                         *)
(* Strings are sequences of one-character strings, so that split, strip    *)
(* and lower are computed character by character as Python computes them.  *)
(***************************************************************************)
EXTENDS Integers, Sequences, FiniteSets, TLC

VARIABLES
    pc,            \* where control is (see the actions)
    folder_exists, \* os.path.isdir(SIGN_FOLDER), an input of the run
    sentence,      \* main's `sentence` / the resolver's argument
    sign_paths,    \* main's `sign_paths` / the resolver's result
    idx,           \* position of `for path in sign_paths` (1-based, 0 outside)
    cap,           \* the cv2.VideoCapture of the current play_video call
    releases,      \* cap.release() calls made by the current play_video call
    shown,         \* frames handed to cv2.imshow by the current play_video call
    key,           \* what cv2.waitKey(25) last returned in the frame loop
    window,        \* the OpenCV window "Sign Language Player"
    log,           \* what the current listen cycle has done, in order
    exit_status    \* how the process ended, "running" until then

vars == <<pc, folder_exists, sentence, sign_paths, idx, cap, releases, shown, key,
          window, log, exit_status>>

----------------------------------------------------------------------------
(* Bounds of the model *)

\* pieces concatenated into one test sentence of the resolver
MaxPieces == 3
\* words in one utterance returned by the recognizer
MaxWords == 2
\* frames a video stream can deliver
MaxFrames == 3
\* listed paths in one direct playback sequence
MaxSeq == 2

----------------------------------------------------------------------------
(* Characters and strings *)

\* The characters str.split() and str.strip() treat as whitespace.
Whitespace == {" ", "\t", "\n"}

UpperLetters == <<"A", "B", "C", "D", "E", "F", "G", "H", "I", "J", "K", "L", "M",
                  "N", "O", "P", "Q", "R", "S", "T", "U", "V", "W", "X", "Y", "Z">>

LowerLetters == <<"a", "b", "c", "d", "e", "f", "g", "h", "i", "j", "k", "l", "m",
                  "n", "o", "p", "q", "r", "s", "t", "u", "v", "w", "x", "y", "z">>

\* str.lower() on one character: an upper-case letter becomes its lower-case
\* letter, any other character is kept.
LowerChar(c) ==
    IF \E i \in DOMAIN UpperLetters : UpperLetters[i] = c
    THEN LowerLetters[CHOOSE i \in DOMAIN UpperLetters : UpperLetters[i] = c]
    ELSE c

\* str.lower()
lower(w) == [i \in 1..Len(w) |-> LowerChar(w[i])]

RECURSIVE lstrip(_)
lstrip(w) ==
    IF w # <<>> /\ Head(w) \in Whitespace THEN lstrip(Tail(w)) ELSE w

RECURSIVE rstrip(_)
rstrip(w) ==
    IF w # <<>> /\ w[Len(w)] \in Whitespace
    THEN rstrip(SubSeq(w, 1, Len(w) - 1))
    ELSE w

\* str.strip(): leading and trailing whitespace removed
strip(w) == rstrip(lstrip(w))

\* str.split() scanning `rest` with the word being read in `cur` and the
\* words already read in `acc`: runs of whitespace separate words, and no
\* empty word is produced.
RECURSIVE SplitScan(_, _, _)
SplitScan(rest, cur, acc) ==
    IF rest = <<>>
    THEN IF cur = <<>> THEN acc ELSE Append(acc, cur)
    ELSE IF Head(rest) \in Whitespace
         THEN SplitScan(Tail(rest), <<>>, IF cur = <<>> THEN acc ELSE Append(acc, cur))
         ELSE SplitScan(Tail(rest), Append(cur, Head(rest)), acc)

\* str.split() with no argument
split(s) == SplitScan(s, <<>>, <<>>)

\* os.path.join(a, b) on POSIX: an absolute b replaces a, otherwise the two
\* are joined by one "/".
path_join(a, b) ==
    IF b # <<>> /\ Head(b) = "/" THEN b
    ELSE IF a = <<>> \/ a[Len(a)] = "/" THEN a \o b
    ELSE a \o <<"/">> \o b

----------------------------------------------------------------------------
(* Configuration *)

SIGN_FOLDER == <<"s", "i", "g", "n", "s">>

\* The catalog: word -> file name.
SIGN_DICT ==
    (<<"h", "o", "w">> :> <<"h", "o", "w", ".", "m", "p", "4">>) @@
    (<<"c", "a", "n">> :> <<"c", "a", "n", ".", "m", "p", "4">>) @@
    (<<"i">> :> <<"I", ".", "m", "p", "4">>) @@
    (<<"h", "e", "l", "p">> :> <<"h", "e", "l", "p", ".", "m", "p", "4">>)

\* Python's None; like the empty string it is false in `if filename:`.
None == <<>>

\* dict.get(key): the value, or None for a key the dict does not hold
DictGet(d, word) == IF word \in DOMAIN d THEN d[word] ELSE None

----------------------------------------------------------------------------
(* Sentence resolver *)

\* A normalisation that trims and keeps the letter case.
NormalizeKeepCase(raw_word) == strip(raw_word)

\* word = raw_word.strip().lower()
Normalize(raw_word) == lower(strip(raw_word))

\* The word lookup of the resolver: filename = SIGN_DICT.get(word) for the
\* normalised word.
Lookup(raw_word) == DictGet(SIGN_DICT, Normalize(raw_word))

\* The loop body of sentence_to_sign_paths applied to the words left, with
\* `paths` the list built so far.
RECURSIVE ResolveLoop(_, _)
ResolveLoop(words, paths) ==
    IF words = <<>> THEN paths
    ELSE LET filename == Lookup(Head(words))
         IN  IF filename # None
             THEN ResolveLoop(Tail(words), Append(paths, path_join(SIGN_FOLDER, filename)))
             ELSE ResolveLoop(Tail(words), paths)

\* A resolver that puts each new path in front of the list.
RECURSIVE ResolveLoopFront(_, _)
ResolveLoopFront(words, paths) ==
    IF words = <<>> THEN paths
    ELSE LET filename == Lookup(Head(words))
         IN  IF filename # None
             THEN ResolveLoopFront(Tail(words), <<path_join(SIGN_FOLDER, filename)>> \o paths)
             ELSE ResolveLoopFront(Tail(words), paths)

sentence_to_sign_pathsFront(s) == ResolveLoopFront(split(s), <<>>)

sentence_to_sign_paths(s) == ResolveLoop(split(s), <<>>)

----------------------------------------------------------------------------
(* Playback controller: helpers *)

\* The last position of character ch in p, 0 when it does not occur (str.rfind).
rfind(p, ch) ==
    LET at == {i \in 1..Len(p) : p[i] = ch}
    IN  IF at = {} THEN 0 ELSE CHOOSE i \in at : \A j \in at : j <= i

\* os.path.splitext(path)[1]: from the last dot of the last path component
\* on, unless that component has only dots before it.
splitext_ext(p) ==
    LET sepIndex == rfind(p, "/")
        dotIndex == rfind(p, ".")
    IN  IF dotIndex > sepIndex /\ \E k \in (sepIndex + 1)..(dotIndex - 1) : p[k] # "."
        THEN SubSeq(p, dotIndex, Len(p))
        ELSE <<>>

\* {".jpg", ".jpeg", ".png", ".gif", ".bmp"}
IMAGE_EXTS ==
    { <<".", "j", "p", "g">>, <<".", "j", "p", "e", "g">>, <<".", "p", "n", "g">>,
      <<".", "g", "i", "f">>, <<".", "b", "m", "p">> }

\* ext in {...}: the path is shown as a still image, any other as a video
IsImage(path) == lower(splitext_ext(path)) \in IMAGE_EXTS

\* ord("q")
ord_q == 113

\* cv2.waitKey's result when no key was pressed within the delay
NoKey == -1

\* Results of cv2.waitKey(25): no key, q, another key, q with a flag above
\* the low byte.
Keys == {NoKey, ord_q, ord_q - 16, ord_q + 256}

\* cv2.waitKey(25) & 0xFF == ord("q")
IsStopKey(k) == (k % 256) = ord_q

\* What the log holds: the start and the end of a play_video call (the end with
\* the way the call returned: "FailedToOpen" for the returns after a warning,
\* "StoppedByUser" for the break on q, "Completed" for the others), the
\* time.sleep between items, cv2.destroyAllWindows, and the diagnostics
\* tagged [FATAL], [ERROR], [WARN] and "[INFO] No playable signs".  The other
\* console lines (banner, prompt, [STT], [READY], per-word [INFO]) are not
\* recorded.
EvBegin(path) == <<"begin", path>>
EvEnd(path, outcome) == <<"end", path, outcome>>
EvWarn(path) == <<"print", "[WARN]", path>>
EvError(kind) == <<"print", "[ERROR]", kind>>
EvInfoNone == <<"print", "[INFO]">>
EvFatal == <<"print", "[FATAL]">>
EvSleep == <<"sleep">>
EvDestroy == <<"destroy">>

----------------------------------------------------------------------------
(* Inputs of the listen loop *)

\* Words the recognizer returns; "sign" has no catalog entry.
Vocabulary ==
    { <<"H", "o", "w">>, <<"c", "a", "n">>, <<"I">>, <<"s", "i", "g", "n">> }

\* Word sequences of at most n words joined by single spaces.
RECURSIVE Utterances(_)
Utterances(n) ==
    IF n = 0 THEN { <<>> }
    ELSE LET shorter == Utterances(n - 1)
         IN  shorter \cup Vocabulary
                 \cup { u \o <<" ">> \o w : u \in shorter \ { <<>> }, w \in Vocabulary }

HowCanIHelp ==
    <<"H", "o", "w", " ", "c", "a", "n", " ", "I", " ", "h", "e", "l", "p">>

\* What recognizer.recognize_google(audio) can return.
RecognizedTexts == Utterances(MaxWords) \cup { HowCanIHelp }

\* States of the listen loop, inside main's try block.
LoopStates ==
    {"idle", "listening", "recognizing", "resolving", "playing", "image", "video",
     "sleeping"}

----------------------------------------------------------------------------
(* main: start *)

Init ==
    /\ pc = "start"
    /\ folder_exists \in BOOLEAN
    /\ sentence = <<>>
    /\ sign_paths = <<>>
    /\ idx = 0
    /\ cap = "none"
    /\ releases = 0
    /\ shown = 0
    /\ key = NoKey
    /\ window = "none"
    /\ log = <<>>
    /\ exit_status = "running"

\* A start-up that skips the folder check.
StartupPresentUnchecked ==
    /\ pc = "start"
    /\ pc' = "setup"
    /\ UNCHANGED <<folder_exists, sentence, sign_paths, idx, cap, releases, shown, key,
                   window, log, exit_status>>

\* if not os.path.isdir(SIGN_FOLDER): print [FATAL]; sys.exit(1)
StartupMissing ==
    /\ pc = "start"
    /\ ~folder_exists
    /\ pc' = "exited"
    /\ exit_status' = "exit1"
    /\ log' = Append(log, EvFatal)
    /\ UNCHANGED <<folder_exists, sentence, sign_paths, idx, cap, releases, shown, key,
                   window>>

\* The folder exists: go on to create the recognizer and the microphone.
StartupPresent ==
    /\ pc = "start"
    /\ folder_exists
    /\ pc' = "setup"
    /\ UNCHANGED <<folder_exists, sentence, sign_paths, idx, cap, releases, shown, key,
                   window, log, exit_status>>

\* sr.Recognizer(), sr.Microphone(), the banner; then `try: while True:`
Setup ==
    /\ pc = "setup"
    /\ pc' = "idle"
    /\ UNCHANGED <<folder_exists, sentence, sign_paths, idx, cap, releases, shown, key,
                   window, log, exit_status>>

\* Ctrl-C while the recognizer and the microphone are created, before the
\* try block is entered: no handler catches the KeyboardInterrupt and the
\* interpreter ends the process with a traceback.
InterruptBeforeLoop ==
    /\ pc = "setup"
    /\ pc' = "killed"
    /\ exit_status' = "uncaught"
    /\ UNCHANGED <<folder_exists, sentence, sign_paths, idx, cap, releases, shown, key,
                   window, log>>

----------------------------------------------------------------------------
(* listen_for_sentence and the head of main's loop *)

\* `while True:` enters listen_for_sentence: the microphone is opened, the
\* noise level calibrated and the capture started.  A new cycle starts, so
\* the log starts again; main's `sentence` and `sign_paths` are not read
\* again before they are assigned, and are cleared here.
BeginListen ==
    /\ pc = "idle"
    /\ pc' = "listening"
    /\ log' = <<>>
    /\ sentence' = <<>>
    /\ sign_paths' = <<>>
    /\ UNCHANGED <<folder_exists, idx, cap, releases, shown, key, window, exit_status>>

\* recognizer.listen(source) returns the captured audio
EndListen ==
    /\ pc = "listening"
    /\ pc' = "recognizing"
    /\ UNCHANGED <<folder_exists, sentence, sign_paths, idx, cap, releases, shown, key,
                   window, log, exit_status>>

\* recognize_google returns a text: listen_for_sentence returns it in lower
\* case, and main goes on unless it is empty (`if not sentence: continue`).
RecognizeOk ==
    /\ pc = "recognizing"
    /\ \E text \in RecognizedTexts :
          /\ sentence' = lower(text)
          /\ pc' = IF lower(text) = <<>> THEN "idle" ELSE "resolving"
    /\ UNCHANGED <<folder_exists, sign_paths, idx, cap, releases, shown, key, window,
                   log, exit_status>>

\* A failed recognition that hands the sentence on to the resolver.
RecognizeFailGoesOn ==
    /\ pc = "recognizing"
    /\ \E kind \in {"UnknownValueError", "RequestError"} :
          log' = Append(log, EvError(kind))
    /\ sentence' = <<"h", "o", "w">>
    /\ pc' = "resolving"
    /\ UNCHANGED <<folder_exists, sign_paths, idx, cap, releases, shown, key, window,
                   exit_status>>

\* recognize_google raises UnknownValueError or RequestError: an [ERROR] line
\* is printed, "" is returned and main continues with the next cycle.
RecognizeFail ==
    /\ pc = "recognizing"
    /\ \E kind \in {"UnknownValueError", "RequestError"} :
          log' = Append(log, EvError(kind))
    /\ sentence' = <<>>
    /\ pc' = "idle"
    /\ UNCHANGED <<folder_exists, sign_paths, idx, cap, releases, shown, key, window,
                   exit_status>>

\* sign_paths = sentence_to_sign_paths(sentence); an empty list prints
\* "[INFO] No playable signs" and continues, any other starts the for loop.
Resolve ==
    /\ pc = "resolving"
    /\ sign_paths' = sentence_to_sign_paths(sentence)
    /\ IF sentence_to_sign_paths(sentence) = <<>>
       THEN /\ pc' = "idle"
            /\ log' = Append(log, EvInfoNone)
            /\ idx' = 0
       ELSE /\ pc' = "playing"
            /\ log' = log
            /\ idx' = 1
    /\ UNCHANGED <<folder_exists, sentence, cap, releases, shown, key, window,
                   exit_status>>

----------------------------------------------------------------------------
(* play_video, called by `for path in sign_paths` *)

\* A still image that cv2.imread cannot decode: [WARN], return.
PlayImageFail ==
    /\ pc = "playing"
    /\ idx \in 1..Len(sign_paths)
    /\ IsImage(sign_paths[idx])
    /\ log' = log \o << EvBegin(sign_paths[idx]), EvWarn(sign_paths[idx]),
                         EvEnd(sign_paths[idx], "FailedToOpen") >>
    /\ pc' = "sleeping"
    /\ UNCHANGED <<folder_exists, sentence, sign_paths, idx, cap, releases, shown, key,
                   window, exit_status>>

\* A still image that decodes: cv2.imshow, then cv2.waitKey(1500) waits.
PlayImageShow ==
    /\ pc = "playing"
    /\ idx \in 1..Len(sign_paths)
    /\ IsImage(sign_paths[idx])
    /\ window' = "open"
    /\ shown' = 1
    /\ log' = Append(log, EvBegin(sign_paths[idx]))
    /\ pc' = "image"
    /\ UNCHANGED <<folder_exists, sentence, sign_paths, idx, cap, releases, key,
                   exit_status>>

\* cv2.waitKey(1500) returns (the delay has passed or a key was pressed,
\* the result is not looked at); return.
ImageDone ==
    /\ pc = "image"
    /\ log' = Append(log, EvEnd(sign_paths[idx], "Completed"))
    /\ pc' = "sleeping"
    /\ UNCHANGED <<folder_exists, sentence, sign_paths, idx, cap, releases, shown, key,
                   window, exit_status>>

\* A video that fails to open and shows a frame all the same.
PlayVideoFailShows ==
    /\ pc = "playing"
    /\ idx \in 1..Len(sign_paths)
    /\ ~IsImage(sign_paths[idx])
    /\ window' = "open"
    /\ shown' = 1
    /\ log' = log \o << EvBegin(sign_paths[idx]), EvWarn(sign_paths[idx]),
                         EvEnd(sign_paths[idx], "FailedToOpen") >>
    /\ pc' = "sleeping"
    /\ UNCHANGED <<folder_exists, sentence, sign_paths, idx, cap, releases, key,
                   exit_status>>

\* cap = cv2.VideoCapture(path) does not open: [WARN], return.  No stream was
\* acquired and no release is called.
PlayVideoFail ==
    /\ pc = "playing"
    /\ idx \in 1..Len(sign_paths)
    /\ ~IsImage(sign_paths[idx])
    /\ log' = log \o << EvBegin(sign_paths[idx]), EvWarn(sign_paths[idx]),
                         EvEnd(sign_paths[idx], "FailedToOpen") >>
    /\ pc' = "sleeping"
    /\ UNCHANGED <<folder_exists, sentence, sign_paths, idx, cap, releases, shown, key,
                   window, exit_status>>

\* cap = cv2.VideoCapture(path) opens: the frame loop is entered.
PlayVideoOpen ==
    /\ pc = "playing"
    /\ idx \in 1..Len(sign_paths)
    /\ ~IsImage(sign_paths[idx])
    /\ cap' = "open"
    /\ log' = Append(log, EvBegin(sign_paths[idx]))
    /\ pc' = "video"
    /\ UNCHANGED <<folder_exists, sentence, sign_paths, idx, releases, shown, key,
                   window, exit_status>>

\* A frame step that does not look at the key.
VideoFrameNoPoll ==
    /\ pc = "video"
    /\ cap = "open"
    /\ shown < MaxFrames
    /\ window' = "open"
    /\ shown' = shown + 1
    /\ \E k \in Keys : key' = k
    /\ UNCHANGED <<folder_exists, sentence, sign_paths, idx, cap, releases, pc, log,
                   exit_status>>

\* One turn of `while cap.isOpened()` whose cap.read() delivers a frame: the
\* frame is shown, cv2.waitKey(25) is read, and on q the loop is left, the
\* stream released and the call returns.
VideoFrame ==
    /\ pc = "video"
    /\ cap = "open"
    /\ shown < MaxFrames
    /\ window' = "open"
    /\ shown' = shown + 1
    /\ \E k \in Keys :
          /\ key' = k
          /\ IF IsStopKey(k)
             THEN /\ cap' = "closed"
                  /\ releases' = releases + 1
                  /\ log' = Append(log, EvEnd(sign_paths[idx], "StoppedByUser"))
                  /\ pc' = "sleeping"
             ELSE UNCHANGED <<cap, releases, log, pc>>
    /\ UNCHANGED <<folder_exists, sentence, sign_paths, idx, exit_status>>

\* A turn whose cap.read() delivers no frame (the stream is exhausted):
\* break, cap.release(), return.
VideoEnd ==
    /\ pc = "video"
    /\ cap = "open"
    /\ cap' = "closed"
    /\ releases' = releases + 1
    /\ log' = Append(log, EvEnd(sign_paths[idx], "Completed"))
    /\ pc' = "sleeping"
    /\ UNCHANGED <<folder_exists, sentence, sign_paths, idx, shown, key, window,
                   exit_status>>

----------------------------------------------------------------------------
(* main: the rest of the for loop, and the interrupt *)

\* A sleep after which the windows are destroyed.
SleepDestroys ==
    /\ pc = "sleeping"
    /\ log' = log \o <<EvSleep, EvDestroy>>
    /\ window' = "none"
    /\ idx' = idx + 1
    /\ pc' = "playing"
    /\ cap' = "none"
    /\ releases' = 0
    /\ shown' = 0
    /\ key' = NoKey
    /\ UNCHANGED <<folder_exists, sentence, sign_paths, exit_status>>

\* A sleep after which the for loop is left.
SleepLeaves ==
    /\ pc = "sleeping"
    /\ log' = Append(log, EvSleep)
    /\ idx' = Len(sign_paths) + 1
    /\ pc' = "playing"
    /\ cap' = "none"
    /\ releases' = 0
    /\ shown' = 0
    /\ key' = NoKey
    /\ UNCHANGED <<folder_exists, sentence, sign_paths, window, exit_status>>

\* play_video has returned: time.sleep(INTER_SIGN_DELAY), and the for loop
\* takes the next path.  The locals of the finished call are gone.
Sleep ==
    /\ pc = "sleeping"
    /\ log' = Append(log, EvSleep)
    /\ idx' = idx + 1
    /\ pc' = "playing"
    /\ cap' = "none"
    /\ releases' = 0
    /\ shown' = 0
    /\ key' = NoKey
    /\ UNCHANGED <<folder_exists, sentence, sign_paths, window, exit_status>>

\* The for loop is exhausted: cv2.destroyAllWindows(), [READY], next cycle.
ForEnd ==
    /\ pc = "playing"
    /\ idx > Len(sign_paths)
    /\ window' = "none"
    /\ log' = Append(log, EvDestroy)
    /\ idx' = 0
    /\ pc' = "idle"
    /\ UNCHANGED <<folder_exists, sentence, sign_paths, cap, releases, shown, key,
                   exit_status>>

\* Ctrl-C inside the try block: KeyboardInterrupt is raised where control
\* is and propagates to `except KeyboardInterrupt`.  Raised inside
\* play_video it leaves the frame loop without reaching cap.release().
Interrupt ==
    /\ pc \in LoopStates
    /\ pc' = "handler"
    /\ UNCHANGED <<folder_exists, sentence, sign_paths, idx, cap, releases, shown, key,
                   window, log, exit_status>>

\* A handler that leaves the window.
HandlerKeepsWindow ==
    /\ pc = "handler"
    /\ pc' = "stopped"
    /\ exit_status' = "exit0"
    /\ UNCHANGED <<folder_exists, sentence, sign_paths, idx, cap, releases, shown, key,
                   window, log>>

\* The handler: [EXIT], cv2.destroyAllWindows(); main returns and the
\* process ends with status 0.  A stream left open is never released by a
\* call of the program; the runtime may finalise the capture object before
\* the process ends, or not.
Handler ==
    /\ pc = "handler"
    /\ window' = "none"
    /\ log' = Append(log, EvDestroy)
    /\ pc' = "stopped"
    /\ exit_status' = "exit0"
    /\ cap' \in (IF cap = "open" THEN {"open", "closed"} ELSE {cap})
    /\ UNCHANGED <<folder_exists, sentence, sign_paths, idx, releases, shown, key>>

----------------------------------------------------------------------------
(* The program *)

\* The catalog names videos only, so no step of the program takes the
\* still-image branch of play_video (NoImageInCatalog); the branch is
\* exercised by SpecPlay below.
Next ==
    \/ StartupMissing
    \/ StartupPresent
    \/ Setup
    \/ InterruptBeforeLoop
    \/ BeginListen
    \/ EndListen
    \/ RecognizeOk
    \/ RecognizeFail
    \/ Resolve
    \/ PlayVideoFail
    \/ PlayVideoOpen
    \/ VideoFrame
    \/ VideoEnd
    \/ Sleep
    \/ ForEnd
    \/ Interrupt
    \/ Handler

Spec == Init /\ [][Next]_vars

----------------------------------------------------------------------------
(* The resolver on its own: sentence_to_sign_paths applied to test sentences *)

\* Fragments of test sentences: separators, catalog words in several letter
\* cases with and without whitespace around them, halves of a catalog word,
\* a word with a punctuation mark, and two words in one fragment.
Pieces ==
    { <<" ">>, <<"\t">>,
      <<"h", "o", "w", " ">>,
      <<"C", "a", "n", "\n">>,
      <<"I">>,
      <<"i", " ">>,
      <<"h", "e">>,
      <<"L", "P", " ">>,
      <<"i", "?", " ">>,
      <<" ", "s", "i", "g", "n", "\t", "H", "E", "L", "P", " ">> }

RECURSIVE Concats(_)
Concats(n) ==
    IF n = 0 THEN { <<>> }
    ELSE LET shorter == Concats(n - 1)
         IN  shorter \cup { u \o piece : u \in shorter, piece \in Pieces }

HOW_world == <<"H", "O", "W", " ", "w", "o", "r", "l", "d">>

TestSentences == Concats(MaxPieces) \cup { HOW_world, HowCanIHelp }

InitResolve ==
    /\ pc = "resolve_call"
    /\ sentence \in TestSentences
    /\ sign_paths = <<>>
    /\ folder_exists = TRUE
    /\ idx = 0
    /\ cap = "none"
    /\ releases = 0
    /\ shown = 0
    /\ key = NoKey
    /\ window = "none"
    /\ log = <<>>
    /\ exit_status = "running"

\* sign_paths = sentence_to_sign_paths(sentence)
CallResolve ==
    /\ pc = "resolve_call"
    /\ sign_paths' = sentence_to_sign_paths(sentence)
    /\ pc' = "resolve_ret"
    /\ UNCHANGED <<folder_exists, sentence, idx, cap, releases, shown, key, window, log,
                   exit_status>>

SpecResolve == InitResolve /\ [][CallResolve]_vars

----------------------------------------------------------------------------
(* The for loop of main over a given list of paths: play_video on still
   images, videos and paths without a known extension *)

TestPaths ==
    { <<"s", "i", "g", "n", "s", "/", "h", "o", "w", ".", "m", "p", "4">>,
      <<"s", "i", "g", "n", "s", "/", "a", ".", "p", "n", "g">>,
      <<"s", "i", "g", "n", "s", "/", "B", ".", "J", "P", "G">>,
      <<"s", ".", "g", "i", "f", "/", "c">>,
      <<"s", "i", "g", "n", "s", "/", ".", "b", "m", "p">> }

RECURSIVE PathSeqs(_)
PathSeqs(n) ==
    IF n = 0 THEN { <<>> }
    ELSE LET shorter == PathSeqs(n - 1)
         IN  shorter \cup { Append(q, path) : q \in shorter, path \in TestPaths }

InitPlay ==
    /\ pc = "playing"
    /\ sign_paths \in PathSeqs(MaxSeq) \ { <<>> }
    /\ idx = 1
    /\ sentence = <<>>
    /\ folder_exists = TRUE
    /\ cap = "none"
    /\ releases = 0
    /\ shown = 0
    /\ key = NoKey
    /\ window = "none"
    /\ log = <<>>
    /\ exit_status = "running"

NextPlay ==
    \/ PlayImageFail
    \/ PlayImageShow
    \/ ImageDone
    \/ PlayVideoFail
    \/ PlayVideoOpen
    \/ VideoFrame
    \/ VideoEnd
    \/ Sleep
    \/ ForEnd

SpecPlay == InitPlay /\ [][NextPlay]_vars

----------------------------------------------------------------------------
(* Properties *)

\* No step of the program plays a still image: every path the resolver can
\* produce from the catalog is a video path.
NoImageInCatalog ==
    \A i \in 1..Len(sign_paths) : ~IsImage(sign_paths[i])

Last(l) == l[Len(l)]

Begins(l) == {i \in 1..Len(l) : l[i][1] = "begin"}

Ends(l, outcome) == {i \in 1..Len(l) : l[i][1] = "end" /\ l[i][3] = outcome}

\* Log l is what playing `paths` one after the other leaves, followed by
\* `rest`: per path a begin, for a failed open a warning, an end, a sleep.
RECURSIVE Played(_, _, _)
Played(l, paths, rest) ==
    IF paths = <<>> THEN l = rest
    ELSE LET path == Head(paths)
         IN  /\ Len(l) >= 3
             /\ l[1] = EvBegin(path)
             /\ \/ /\ l[2] \in {EvEnd(path, "Completed"), EvEnd(path, "StoppedByUser")}
                   /\ l[3] = EvSleep
                   /\ Played(SubSeq(l, 4, Len(l)), Tail(paths), rest)
                \/ /\ Len(l) >= 4
                   /\ l[2] = EvWarn(path)
                   /\ l[3] = EvEnd(path, "FailedToOpen")
                   /\ l[4] = EvSleep
                   /\ Played(SubSeq(l, 5, Len(l)), Tail(paths), rest)

(* C1 *)

\* Character c lower-cases to the character k of a catalog key.
FoldsTo(c, k) ==
    \/ c = k /\ \A i \in DOMAIN UpperLetters : UpperLetters[i] # c
    \/ \E i \in DOMAIN UpperLetters : UpperLetters[i] = c /\ LowerLetters[i] = k

MatchesKey(token, k) ==
    Len(token) = Len(k) /\ \A i \in 1..Len(k) : FoldsTo(token[i], k[i])

\* Positions of s where a maximal run of non-whitespace characters starts.
TokenStarts(s) ==
    {a \in 1..Len(s) : s[a] \notin Whitespace /\ (a = 1 \/ s[a - 1] \in Whitespace)}

TokenAt(s, a) ==
    LET b == CHOOSE e \in a..Len(s) :
                 /\ \A j \in a..e : s[j] \notin Whitespace
                 /\ (e = Len(s) \/ s[e + 1] \in Whitespace)
    IN  SubSeq(s, a, b)

RecognizedStarts(s) ==
    {a \in TokenStarts(s) : \E k \in DOMAIN SIGN_DICT : MatchesKey(TokenAt(s, a), k)}

MediaPath(token) ==
    <<"s", "i", "g", "n", "s", "/">>
        \o SIGN_DICT[CHOOSE k \in DOMAIN SIGN_DICT : MatchesKey(token, k)]

\* C1: the resolver's result is the list of <media root>/<file name> of the
\* whitespace-separated tokens of the sentence whose lower-cased form is a
\* catalog key, one entry per such token, in the order of the tokens: the
\* j-th entry belongs to the j-th recognized token, and there are as many
\* entries as recognized tokens (none for an unknown word, k for a word that
\* occurs k times).
C1_ResolveIsFilterMap ==
    pc = "resolve_ret" =>
        LET R == RecognizedStarts(sentence)
        IN  /\ Len(sign_paths) = Cardinality(R)
            /\ \A a \in R :
                  sign_paths[Cardinality({b \in R : b <= a})] = MediaPath(TokenAt(sentence, a))

\* A sentence with an unknown word and a catalog word that occurs twice,
\* with another catalog word between the two occurrences.
C1_Witness ==
    /\ pc = "resolve_ret"
    /\ Len(sign_paths) = 3
    /\ sign_paths[1] = sign_paths[3]
    /\ sign_paths[1] # sign_paths[2]
    /\ Cardinality(TokenStarts(sentence)) = 4

(* C9 *)

\* C9: word lookup does not depend on letter case or on whitespace around
\* the word: looking a word up gives what looking up its trimmed,
\* lower-cased form gives; so a sentence resolves to what its lower-cased
\* form resolves to, and "HOW world" resolves to signs/how.mp4 alone.
C9_LookupCaseInsensitive ==
    pc = "resolve_ret" =>
        /\ \A w \in Pieces \cup {split(sentence)[i] : i \in 1..Len(split(sentence))} :
              Lookup(w) = Lookup(lower(strip(w)))
        /\ sign_paths = sentence_to_sign_paths(lower(sentence))
        /\ sentence = HOW_world =>
              sign_paths = << <<"s", "i", "g", "n", "s", "/", "h", "o", "w", ".", "m", "p", "4">> >>

\* "HOW world" has been resolved to one path.
C9_Witness ==
    /\ pc = "resolve_ret"
    /\ sentence = HOW_world
    /\ Len(sign_paths) = 1
    /\ sentence # lower(sentence)

(* C2 *)

HowCanIHelpPaths ==
    << <<"s", "i", "g", "n", "s", "/", "h", "o", "w", ".", "m", "p", "4">>,
       <<"s", "i", "g", "n", "s", "/", "c", "a", "n", ".", "m", "p", "4">>,
       <<"s", "i", "g", "n", "s", "/", "I", ".", "m", "p", "4">>,
       <<"s", "i", "g", "n", "s", "/", "h", "e", "l", "p", ".", "m", "p", "4">> >>

\* C2: while the sequence is played, the log is exactly one call of
\* play_video per path already taken, in the order of the sequence, each
\* ended before the next begins and each followed by the sleep whatever its
\* outcome; when the cycle is back at idle after playing, all paths have been
\* played so and the windows were destroyed once, after the last sleep.
\* "how can i help" plays how, can, I, help in that order.
C2_PlayedInOrder ==
    /\ (pc = "playing" /\ idx >= 1) =>
           Played(log, SubSeq(sign_paths, 1, idx - 1), <<>>)
    /\ (pc = "idle" /\ sign_paths # <<>>) =>
           Played(log, sign_paths, <<EvDestroy>>)
    /\ (pc = "idle" /\ sentence = lower(HowCanIHelp)) =>
           Played(log, HowCanIHelpPaths, <<EvDestroy>>)

\* The cycle of "how can i help" is over, with an item that failed to open,
\* one stopped by the user and one played to its end.
C2_Witness ==
    /\ pc = "idle"
    /\ sentence = lower(HowCanIHelp)
    /\ Len(sign_paths) = 4
    /\ Ends(log, "FailedToOpen") # {}
    /\ Ends(log, "StoppedByUser") # {}
    /\ Ends(log, "Completed") # {}
    /\ Last(log) = EvDestroy

(* C3 *)

\* C3: a decode stream that play_video acquired is released by exactly one
\* cap.release() on every way out of the call, an interrupt during the frame
\* loop included: outside the frame loop no stream is open, release is
\* called at most once, and a call that has returned with a stream has
\* called it once.
C3_StreamReleasedOnEveryExit ==
    /\ pc # "video" => cap # "open"
    /\ releases <= 1
    /\ (pc = "sleeping" /\ cap = "closed") => releases = 1

(* C4 *)

PlaybackStates == {"playing", "image", "video", "sleeping"}

\* C4: play_video is called only in a cycle whose sentence and whose resolved
\* sequence are not empty.  A failed recognition leaves an empty sentence,
\* nothing resolved and nothing played, and the loop at idle; an empty
\* resolved sequence leaves nothing played and the loop at idle.  At idle the
\* process is running and the next cycle can start listening.
C4_PlayOnlyWhenResolved ==
    /\ (pc \in PlaybackStates \/ Begins(log) # {}) =>
           (sentence # <<>> /\ sign_paths # <<>>)
    /\ (log # <<>> /\ Last(log)[1] = "print" /\ Last(log)[2] = "[ERROR]") =>
           /\ pc \in {"idle", "handler"}
           /\ sentence = <<>>
           /\ sign_paths = <<>>
           /\ Len(log) = 1
    /\ (log # <<>> /\ Last(log) = EvInfoNone) =>
           /\ pc \in {"idle", "handler"}
           /\ sign_paths = <<>>
           /\ Len(log) = 1
    /\ (pc = "resolving" \/ sign_paths # <<>>) => sentence # <<>>
    /\ pc = "idle" => (exit_status = "running" /\ ENABLED BeginListen)

\* A cycle whose recognition failed on a service error is back at idle.
C4_Witness ==
    /\ pc = "idle"
    /\ log = <<EvError("RequestError")>>
    /\ sentence = <<>>

(* C5 *)

\* The item at position i of the log ended as a failed open.
FailedAt(l, i) == i \in 1..Len(l) /\ l[i][1] = "end" /\ l[i][3] = "FailedToOpen"

\* C5: a media item that fails to open (image or video) gets a warning, shows
\* no frame and opens no window, and play_video returns to the for loop,
\* which sleeps and takes the next path of the same sequence.
C5_FailedOpenIsSkipped ==
    /\ [](\A i \in 1..Len(log) :
             FailedAt(log, i) =>
                 /\ i >= 3
                 /\ log[i - 1] = EvWarn(log[i][2])
                 /\ log[i - 2] = EvBegin(log[i][2]))
    /\ []((pc = "sleeping" /\ FailedAt(log, Len(log))) =>
             /\ shown = 0
             /\ cap = "none"
             /\ Last(log)[2] = sign_paths[idx]
             /\ ENABLED Sleep)
    /\ [][(Len(log') > Len(log) /\ FailedAt(log', Len(log'))) =>
             /\ pc = "playing"
             /\ pc' = "sleeping"
             /\ window' = window
             /\ idx' = idx]_vars
    /\ [][(pc = "sleeping" /\ FailedAt(log, Len(log))) =>
             /\ pc' = "playing"
             /\ idx' = idx + 1
             /\ sign_paths' = sign_paths
             /\ log' = Append(log, EvSleep)]_vars
    /\ []((pc = "idle" /\ sign_paths # <<>>) => Cardinality(Begins(log)) = Len(sign_paths))

\* A still image failed to open as the first item of a sequence and the
\* second item, a video that failed to open, has been played after it.
C5_Witness ==
    /\ pc = "sleeping"
    /\ idx = 2
    /\ IsImage(sign_paths[1])
    /\ ~IsImage(sign_paths[2])
    /\ FailedAt(log, 3)
    /\ FailedAt(log, Len(log))

(* C6 *)

\* C6: every frame shown by the frame loop is followed by a look at the key:
\* on q (in the low byte) the call ends at once as StoppedByUser with the
\* stream closed, on anything else the loop goes on; control is never in the
\* frame loop with a q read, so no frame follows the stop; leaving the loop
\* without a frame shown is the end of the stream, Completed.  The stop ends
\* one item: the for loop goes on, and a cycle back at idle has played every
\* path of its sequence.
C6_StopEndsCurrentItemOnly ==
    /\ [][(pc = "video" /\ shown' = shown + 1) =>
             IF IsStopKey(key')
             THEN /\ pc' = "sleeping"
                  /\ log' = Append(log, EvEnd(sign_paths[idx], "StoppedByUser"))
                  /\ cap' = "closed"
                  /\ idx' = idx
             ELSE /\ pc' = "video"
                  /\ log' = log]_vars
    /\ [](pc = "video" => ~IsStopKey(key))
    /\ [][(pc = "video" /\ pc' = "sleeping" /\ shown' = shown) =>
             log' = Append(log, EvEnd(sign_paths[idx], "Completed"))]_vars
    /\ []((pc = "sleeping" /\ IsStopKey(key)) =>
             /\ Last(log) = EvEnd(sign_paths[idx], "StoppedByUser")
             /\ shown >= 1
             /\ ENABLED Sleep)
    /\ [][(pc = "sleeping" /\ pc' # "handler") =>
             (pc' = "playing" /\ idx' = idx + 1 /\ sign_paths' = sign_paths)]_vars
    /\ []((pc = "idle" /\ sign_paths # <<>>) => Played(log, sign_paths, <<EvDestroy>>))

\* The first item of a sequence was stopped by the user, the second was
\* played to the end of its stream, and the loop is back at idle.
C6_Witness ==
    /\ pc = "idle"
    /\ Len(sign_paths) >= 2
    /\ log[2] = EvEnd(sign_paths[1], "StoppedByUser")
    /\ log[5] = EvEnd(sign_paths[2], "Completed")

(* C7 *)

\* C7: in every state of the listen loop an interrupt can be taken, and the
\* handler then stops the process; the process stops in no other way: the
\* handler is entered from a loop state only, the loop is left for the
\* handler only, and stopped is entered from the handler only, with the
\* windows destroyed and exit status 0.  Once stopped nothing changes.
C7_StoppedOnlyByInterrupt ==
    /\ [](pc \in LoopStates => ENABLED Interrupt)
    /\ [](pc = "handler" => ENABLED Handler)
    /\ [][(pc \in LoopStates) => (pc' \in (LoopStates \cup {"handler"}))]_vars
    /\ [][(pc' = "handler" /\ pc # "handler") => pc \in LoopStates]_vars
    /\ [][(pc' = "stopped" /\ pc # "stopped") =>
             /\ pc = "handler"
             /\ window' = "none"
             /\ exit_status' = "exit0"]_vars
    /\ [](exit_status = "exit0" <=> pc = "stopped")
    /\ [][pc = "stopped" => vars' = vars]_vars

\* The process was interrupted during a video and has stopped.
C7_Witness ==
    /\ pc = "stopped"
    /\ exit_status = "exit0"
    /\ window = "none"
    /\ shown >= 1
    /\ Last(log) = EvDestroy

(* C8 *)

\* C8: with the sign folder missing, the only step the program takes is the
\* exit with status 1 after the [FATAL] line: nothing was listened to,
\* recognized, resolved or played, and nothing follows.  With the folder
\* present the status is never 1.
C8_MissingFolderIsFatal ==
    /\ []((~folder_exists /\ pc # "start") =>
             /\ pc = "exited"
             /\ exit_status = "exit1"
             /\ log = <<EvFatal>>
             /\ sentence = <<>>
             /\ sign_paths = <<>>
             /\ window = "none")
    /\ [](exit_status = "exit1" <=> pc = "exited")
    /\ [](folder_exists => exit_status # "exit1")
    /\ [][pc = "exited" => vars' = vars]_vars

\* The process has exited with status 1.
C8_Witness ==
    /\ pc = "exited"
    /\ exit_status = "exit1"
    /\ ~folder_exists

(* C10 *)

\* C10: while a sequence is played (from the first call of play_video to the
\* sleep after the last) the windows are not destroyed: the log of the cycle
\* holds no destroy and an open window stays open.  The windows are
\* destroyed only when the for loop has played the whole sequence, or by the
\* interrupt handler.
C10_NoDestroyWithinSequence ==
    /\ [](pc \in PlaybackStates => \A i \in 1..Len(log) : log[i] # EvDestroy)
    /\ [][((window = "open" /\ window' # "open")
             \/ (Len(log') > Len(log) /\ \E i \in (Len(log) + 1)..Len(log') : log'[i] = EvDestroy)) =>
                \/ /\ pc = "playing"
                   /\ idx = Len(sign_paths) + 1
                   /\ Played(log, sign_paths, <<>>)
                   /\ pc' = "idle"
                \/ /\ pc = "handler"
                   /\ pc' = "stopped"]_vars

\* Between two items: the first has shown frames and was stopped by the
\* user, the second failed to open, and the window is still open.
C10_Witness ==
    /\ pc = "sleeping"
    /\ idx = 2
    /\ window = "open"
    /\ log[2] = EvEnd(sign_paths[1], "StoppedByUser")
    /\ FailedAt(log, Len(log))

====
